---- MODULE Spec2Model ----
(***************************************************************************)
(* Model of archive-cli.py: the tier-transition and exclusion-             *)
(* reconciliation engine of the S3 and Azure blob operators.               *)
(*                                                                         *)
(* One behaviour is one command invocation (tag, archive, restore, sync),  *)
(* executed step by step against a blob store and the persisted            *)
(* exclusion object.  Every subprocess call of the program is one step     *)
(* whose outcome (ok, throttled, error) is chosen by the environment.      *)
(***************************************************************************)
EXTENDS Integers, Sequences, FiniteSets, TLC

(***************************************************************************)
(* Bounds of the model.                                                    *)
(***************************************************************************)
NumBlobs == 3
MaxPageSize == 3
MaxThrottle == 1
MaxNames == 2
MaxIndexBlobs == 2

(***************************************************************************)
(* Program constants.                                                      *)
(***************************************************************************)
BLOB_TIER_ARCHIVE == "archive"
BLOB_TIER_HOT == "hot"
VENDOR_AZURE == "azure"
VENDOR_AWS == "aws"

Vendors == {VENDOR_AWS, VENDOR_AZURE}
IndexIds == {"idx-1", "idx-2"}
Blobs == 1..NumBlobs
\* The exclusion object when the store does not hold it
Absent == [present |-> FALSE, list |-> <<>>]
\* The exclusion object holding the JSON array l
File(l) == [present |-> TRUE, list |-> l]

\* str.lower() on the tier words the program handles
Lower(s) ==
    CASE s = "Archive" -> "archive"
      [] s = "Hot" -> "hot"
      [] OTHER -> s

\* str.capitalize() on the tier words the program handles
Capitalize(s) ==
    CASE s = "archive" -> "Archive"
      [] s = "hot" -> "Hot"
      [] OTHER -> s

\* S3Operator.STORAGE_CLASS_LOOKUP / get_storage_class
get_storage_class(tier) ==
    CASE Lower(tier) = BLOB_TIER_ARCHIVE -> "DEEP_ARCHIVE"
      [] Lower(tier) = BLOB_TIER_HOT -> "STANDARD"
      [] OTHER -> "UNKNOWN"

(***************************************************************************)
(* Blob names, as the sequence of their '/'-separated segments.            *)
(***************************************************************************)
\* COMMON_INDEX_PREFIX of each operator, split on '/'
COMMON_INDEX_PREFIX(v) ==
    IF v = VENDOR_AWS THEN <<"stellar_data_backup", "", "indices">>
    ELSE <<"stellar_data_backup", "indices">>

IndexOf(b) == IF b % 2 = 1 THEN "idx-1" ELSE "idx-2"

\* The store holds, under the operator's index prefix, files of two indices
\* and (every third blob) a file that lies directly in the indices directory.
BlobName(v, b) ==
    IF b % 3 = 0 THEN COMMON_INDEX_PREFIX(v) \o <<ToString(b)>>
    ELSE COMMON_INDEX_PREFIX(v) \o <<IndexOf(b), ToString(b)>>

IsPrefix(p, s) == Len(p) <= Len(s) /\ SubSeq(s, 1, Len(p)) = p

\* BLOB_INDEX_ID_RE.match(blob): the captured index id, or "" for no match.
\* '^<prefix>/([^/]+)/' needs a non-empty segment after the prefix and a
\* further '/' after it.
BLOB_INDEX_ID_RE(v, name) ==
    LET p == COMMON_INDEX_PREFIX(v) IN
    IF /\ IsPrefix(p, name)
       /\ Len(name) >= Len(p) + 2
       /\ name[Len(p) + 1] # ""
    THEN name[Len(p) + 1]
    ELSE ""

\* INDEX_ID_RE.match(url) on 's3://<bucket>/<key>' split on '/'
INDEX_ID_RE(url) ==
    LET p == COMMON_INDEX_PREFIX(VENDOR_AWS) IN
    IF /\ Len(url) >= 3 + Len(p) + 2
       /\ url[1] = "s3:" /\ url[2] = "" /\ url[3] # ""
       /\ SubSeq(url, 4, 3 + Len(p)) = p
       /\ url[3 + Len(p) + 1] # ""
    THEN url[3 + Len(p) + 1]
    ELSE ""

(***************************************************************************)
(* Listing commands.  A command line is the sequence of its shell words;   *)
(* a word is the sequence of the text pieces the f-strings put next to     *)
(* each other without a blank between them.                                *)
(***************************************************************************)
Front(s) == SubSeq(s, 1, Len(s) - 1)
Last(s) == s[Len(s)]

\* S3Operator.get_blobs: marker = f"--starting-token '{next_marker}'"
S3Marker(token) == << <<"--starting-token">>, <<token>> >>

\* AzureBlobOperator.get_blobs: marker = f"--marker '{next_marker}'"
AzureMarker(token) == << <<"--marker">>, <<token>> >>

\* S3Operator.get_blobs: f'aws s3api list-objects-v2 --bucket {bucket} {marker} {query}'
S3ListCommand(marker) ==
    << <<"--bucket">>, <<"BUCKET">> >> \o marker

\* AzureBlobOperator.get_blobs:
\*   f"az storage blob list --show-next-marker {marker}"
\*   f"--container-name {container} --account-name {account} {query} "
\* The two literals are adjacent: no blank separates the marker text from
\* "--container-name", so the last word of a non-empty marker and
\* "--container-name" are one shell word.
AzureListCommand(marker) ==
    LET head == << <<"--show-next-marker">> >>
        rest == << <<"--container-name">>, <<"CONTAINER">>,
                   <<"--account-name">>, <<"ACCOUNT">> >>
    IN IF marker = <<>> THEN head \o rest
       ELSE head \o Front(marker) \o << Last(marker) \o Head(rest) >> \o Tail(rest)

\* The value the command line gives to option opt: the word after it,
\* or <<>> when the option is not a word of the command.
OptionValue(words, opt) ==
    IF \E i \in 1..(Len(words) - 1) : words[i] = <<opt>>
    THEN words[(CHOOSE i \in 1..(Len(words) - 1) : words[i] = <<opt>>) + 1]
    ELSE <<>>

\* The command-line tool rejects a command whose required option is missing.
CommandAccepted(v, words) ==
    IF v = VENDOR_AWS THEN OptionValue(words, "--bucket") # <<>>
    ELSE /\ OptionValue(words, "--container-name") # <<>>
         /\ OptionValue(words, "--account-name") # <<>>

\* Continuation tokens are the decimal offset of the next page.
CursorOfWord(w) ==
    IF w = <<>> THEN 0
    ELSE IF Len(w) = 1 /\ \E c \in 1..NumBlobs : ToString(c) = w[1]
         THEN CHOOSE c \in 1..NumBlobs : ToString(c) = w[1]
         ELSE -1

CursorOf(v, words) ==
    CursorOfWord(OptionValue(words,
        IF v = VENDOR_AWS THEN "--starting-token" ELSE "--marker"))

RECURSIVE SelectBlobs(_, _, _)
\* The blobs from..NumBlobs whose name starts with the prefix, in store order
SelectBlobs(v, prefix, from) ==
    IF from > NumBlobs THEN <<>>
    ELSE (IF IsPrefix(prefix, BlobName(v, from)) THEN <<from>> ELSE <<>>)
         \o SelectBlobs(v, prefix, from + 1)

Min(a, b) == IF a < b THEN a ELSE b

\* One page of the store's listing: the blobs of the page and the token of
\* the next page ("" when none remains).
StorePage(v, prefix, cursor, size) ==
    LET all == SelectBlobs(v, prefix, 1)
        upto == Min(cursor + size, Len(all))
    IN [blobs |-> SubSeq(all, cursor + 1, upto),
        next |-> IF upto < Len(all) THEN ToString(upto) ELSE ""]

\* get_included_blobs_query: the server-side tier filter of the Azure
\* listing ('[?properties.blobTier == `src_tier`]' unless force)
get_included_blobs_query(args, src_tier, force) ==
    [prefix |-> args.included_prefix, num_results |-> args.page_size,
     blobTier |-> IF force THEN "" ELSE src_tier]

\* S3Operator.get_blobs_query
get_blobs_query(args) ==
    [prefix |-> args.included_prefix, num_results |-> args.page_size,
     blobTier |-> ""]

\* The names a successful Azure listing response carries
AzureResponseNames(query, blobs, tiers) ==
    SelectSeq(blobs, LAMBDA b : query.blobTier = "" \/ tiers[b] = query.blobTier)

\* A lister that yields every key of the response
S3YieldedNames_unfiltered(blobs, tiers, force, expected) == blobs

\* S3Operator.get_blobs, lines 223-230: the client-side storage-class filter
S3YieldedNames(blobs, tiers, force, expected) ==
    SelectSeq(blobs, LAMBDA b : force \/ get_storage_class(tiers[b]) = expected)

(***************************************************************************)
(* The exclusion list: the JSON array of the exclusion object, in order.   *)
(***************************************************************************)
Range(s) == {s[i] : i \in 1..Len(s)}

\* The iteration orders of a Python set
Orders(S) ==
    {o \in [1..Cardinality(S) -> S] : \A i, j \in 1..Cardinality(S) : o[i] = o[j] => i = j}

\* An add that appends every touched id, present or not
add_indices_append_all(ids, indices) == indices \o ids

RECURSIVE add_indices(_, _)
\* add_excluded_indices.add_indices: append every id not yet present
add_indices(ids, indices) ==
    IF ids = <<>> THEN indices
    ELSE add_indices(Tail(ids),
                     IF Head(ids) \in Range(indices) THEN indices
                     ELSE Append(indices, Head(ids)))

\* list.remove(x): drop the first occurrence of x
ListRemove(indices, x) ==
    LET i == CHOOSE k \in 1..Len(indices) :
                 indices[k] = x /\ \A j \in 1..(k - 1) : indices[j] # x
    IN SubSeq(indices, 1, i - 1) \o SubSeq(indices, i + 1, Len(indices))

RECURSIVE remove_indices(_, _, _)
\* remove_excluded_indices.remove_indices: existing is the set built from the
\* downloaded list; an id is removed from the list once, when it is in the set
remove_indices(ids, indices, existing) ==
    IF ids = <<>> THEN indices
    ELSE IF Head(ids) \in existing
         THEN remove_indices(Tail(ids), ListRemove(indices, Head(ids)),
                             existing \ {Head(ids)})
         ELSE remove_indices(Tail(ids), indices, existing)

\* update_excluded_index: which update the destination tier selects
update_excluded_index(dst_tier) ==
    CASE Lower(dst_tier) = BLOB_TIER_HOT -> "add"
      [] Lower(dst_tier) = BLOB_TIER_ARCHIVE -> "remove"
      [] OTHER -> "none"

\* _update_excluded_indices, lines 131-138: the list that is written back.
\* downloaded is the content of the local file, or Absent when the download
\* left no file (its failure is ignored).
UpdatedIndices(fn, ids, downloaded) ==
    IF ~downloaded.present THEN <<>>
    ELSE IF fn = "add" THEN add_indices(ids, downloaded.list)
         ELSE remove_indices(ids, downloaded.list, Range(downloaded.list))

\* should_skip_index comparing the destination tier as given ("Archive"),
\* without lower()
should_skip_index_as_given(index_id, dst_tier, excluded_indices) ==
    dst_tier = BLOB_TIER_ARCHIVE /\ index_id \in excluded_indices

\* should_skip_index
should_skip_index(index_id, dst_tier, excluded_indices) ==
    Lower(dst_tier) = BLOB_TIER_ARCHIVE /\ index_id \in excluded_indices

\* A set_tag that reconciles whether or not the exclusion list is enabled
ReconcileWanted_when_disabled(errs, enabled, diff) == errs = {} /\ diff # {}

\* set_tag updating the exclusion object whatever the collected errors
ReconcileWanted_despite_errors(errs, enabled, diff) ==
    enabled /\ diff # {}

\* set_tag updating the exclusion object when errors were collected
ReconcileWanted_on_errors(errs, enabled, diff) ==
    errs # {} /\ enabled /\ diff # {}

\* set_tag, lines 269-274: the exclusion object is updated after the loop
\* when no error was collected, exclusion is enabled and an index was seen
ReconcileWanted(errs, enabled, diff) ==
    errs = {} /\ enabled /\ diff # {}

(***************************************************************************)
(* State                                                                   *)
(***************************************************************************)
VARIABLES
    vendor,             \* which operator runs
    cmd,                \* the sub-command
    args,               \* the parsed arguments
    tier,               \* store: blob -> "Hot" | "Archive"
    tag,                \* store: blob -> value of the StellarBlobTier tag
    exclFile,           \* store: the exclusion object (a list) or Absent
    pc,                 \* position of the command
    pass,               \* "tier" (set_tier) or "tag" (set_tag)
    src_tier, dst_tier, force,   \* of the running pass
    enabled,            \* excluded_indices_enabled of the running set_tag
    marker, found_next_marker, page,   \* the get_blobs generator
    cur,                \* the blob the retry loop is working on
    errors, processed, indices_diff, excluded_indices,   \* locals of the pass
    rec,                \* the running _update_excluded_indices call
    throttles,          \* throttled outcomes so far
    yielded,            \* names the running generator has yielded
    batch0,             \* the store and the log length when the running pass started
    excl0, tier0,       \* the store when the command started
    log,                \* every store operation issued, in order
    printed,            \* the lines the command has written to its output
    index_blobs,        \* store: the objects under 'stellar_data_backup/index-'
    index_ids, missing_names,   \* locals of do_get_prefix
    peer                \* the _update_excluded_indices call of a second invocation

store == <<tier, tag, exclFile>>
generator == <<marker, found_next_marker, page, yielded>>
passvars == <<pass, src_tier, dst_tier, force, enabled>>
locals == <<cur, errors, processed, indices_diff, excluded_indices>>
command == <<vendor, cmd, args, excl0, tier0>>
resolver == <<index_blobs, index_ids, missing_names>>
vars == <<vendor, cmd, args, tier, tag, exclFile, pc, pass, src_tier, dst_tier,
          force, enabled, marker, found_next_marker, page, cur, errors,
          processed, indices_diff, excluded_indices, rec, throttles, yielded,
          batch0, excl0, tier0, log, printed, index_blobs, index_ids,
          missing_names, peer>>

Tiers == {"Hot", "Archive"}
TierWords == {BLOB_TIER_ARCHIVE, BLOB_TIER_HOT}
\* an --included-prefix under which every blob of the backup lies
BackupPrefix == <<"stellar_data_backup">>
Prefixes(v) == {BackupPrefix, COMMON_INDEX_PREFIX(v) \o <<"idx-1">>}
NoRec == [fn |-> "none", ids |-> {}, downloaded |-> Absent, indices |-> <<>>,
          ret |-> "done"]

Commands(v) ==
    IF v = VENDOR_AWS THEN {"tag", "sync", "restore", "get_prefix"}
    ELSE {"tag", "archive", "restore", "get_prefix"}

\* The index names of the metadata object and one name it does not hold
IndexNames == {"a", "b", "c"}

\* The content of the metadata object: {"indices": {name: {"id": id}}}
IndexMetadata == [a |-> "idx-1", b |-> "idx-2"]

\* args.names.strip().split(','): one name or more
NameLists ==
    UNION {[1..n -> IndexNames] : n \in 1..MaxNames}

\* The listings of the metadata prefix: no object, one, or several
IndexBlobLists == {[i \in 1..n |-> i] : n \in 0..MaxIndexBlobs}

\* The duplicate-free lists over the index ids
ExclusionLists ==
    UNION {Orders(S) : S \in SUBSET IndexIds}

\* argparse namespaces of the sub-commands (setup_aws_actions,
\* setup_azure_actions); options a sub-command does not have keep defaults
ArgsOf(v, c) ==
    IF c = "tag"
    THEN {a \in [included_prefix : Prefixes(v), page_size : 1..MaxPageSize,
                 force : BOOLEAN, src_tier : TierWords, dst_tier : TierWords,
                 excluded_indices_enabled : BOOLEAN, names : {<<>>}] :
             a.force => a.src_tier = BLOB_TIER_HOT}
    ELSE IF c = "get_prefix"
    THEN [included_prefix : {BackupPrefix}, page_size : {1},
          force : {FALSE}, src_tier : {BLOB_TIER_HOT},
          dst_tier : {BLOB_TIER_ARCHIVE},
          excluded_indices_enabled : {TRUE}, names : NameLists]
    ELSE [included_prefix : {BackupPrefix}, page_size : 1..MaxPageSize,
          force : {FALSE}, src_tier : {BLOB_TIER_HOT},
          dst_tier : {BLOB_TIER_ARCHIVE},
          excluded_indices_enabled : IF c = "archive" THEN {TRUE} ELSE BOOLEAN,
          names : {<<>>}]

\* One store call: the operation, the blob, the outcome the operation hands
\* to its caller and the reply of the store.  Ev is a call whose outcome is
\* the store's reply.
EvReply(op, blob, out, reply) ==
    [op |-> op, blob |-> blob, out |-> out, reply |-> reply]

Ev(op, blob, out) == EvReply(op, blob, out, out)

\* No second invocation is running
NoPeer == [pc |-> "idle", fn |-> "none", ids |-> {}, downloaded |-> Absent,
           indices |-> <<>>]

\* One line of output (BlobOperator.log / print): the message, the number it
\* reports and the names it lists
Line(msg, n, names) == [msg |-> msg, n |-> n, names |-> names]

Init ==
    /\ vendor \in Vendors
    /\ cmd \in Commands(vendor)
    /\ args \in ArgsOf(vendor, cmd)
    /\ tier \in [Blobs -> Tiers]
    /\ tag = tier
    /\ exclFile \in {File(l) : l \in ExclusionLists} \cup {Absent}
    /\ pc = "start"
    /\ pass = "none" /\ src_tier = "" /\ dst_tier = "" /\ force = FALSE
    /\ enabled = FALSE
    /\ marker = <<>> /\ found_next_marker = FALSE /\ page = <<>>
    /\ cur = 0 /\ errors = {} /\ processed = 0 /\ indices_diff = {}
    /\ excluded_indices = {}
    /\ rec = NoRec
    /\ throttles = 0
    /\ yielded = <<>>
    /\ batch0 = [excl |-> exclFile, tier |-> tier, at |-> 0]
    /\ excl0 = exclFile /\ tier0 = tier
    /\ log = <<>>
    /\ printed = <<>>
    /\ index_blobs \in IndexBlobLists
    /\ cmd # "get_prefix" => index_blobs = [i \in 1..1 |-> i]
    /\ index_ids = <<>> /\ missing_names = <<>>
    /\ peer = NoPeer

(***************************************************************************)
(* The sub-commands                                                        *)
(***************************************************************************)
\* A fresh get_blobs generator and the locals of the pass that consumes it
StartPass(p, src, dst, f, en, next_pc) ==
    /\ pass' = p /\ src_tier' = src /\ dst_tier' = dst /\ force' = f
    /\ enabled' = en
    /\ marker' = <<>> /\ found_next_marker' = TRUE /\ page' = <<>>
    /\ yielded' = <<>>
    /\ cur' = 0 /\ errors' = {} /\ processed' = 0 /\ indices_diff' = {}
    /\ excluded_indices' = {}
    /\ batch0' = [excl |-> exclFile, tier |-> tier, at |-> Len(log)]
    /\ pc' = next_pc

\* S3Operator.tag
S3Operator_tag ==
    /\ pc = "start" /\ vendor = VENDOR_AWS /\ cmd = "tag"
    /\ StartPass("tag", args.src_tier, Capitalize(args.dst_tier), args.force,
                 args.excluded_indices_enabled, "load")
    /\ UNCHANGED <<command, peer, resolver, printed, store, rec, throttles, log>>

\* AzureBlobOperator.tag
AzureBlobOperator_tag ==
    /\ pc = "start" /\ vendor = VENDOR_AZURE /\ cmd = "tag"
    /\ StartPass("tag", Capitalize(args.src_tier), Capitalize(args.dst_tier),
                 args.force, args.excluded_indices_enabled, "load")
    /\ UNCHANGED <<command, peer, resolver, printed, store, rec, throttles, log>>

\* AzureBlobOperator.restore, lines 534-537: the set_tier pass
AzureBlobOperator_restore ==
    /\ pc = "start" /\ vendor = VENDOR_AZURE /\ cmd = "restore"
    /\ StartPass("tier", Capitalize(BLOB_TIER_ARCHIVE), Capitalize(BLOB_TIER_HOT),
                 FALSE, FALSE, "iter")
    /\ UNCHANGED <<command, peer, resolver, printed, store, rec, throttles, log>>

\* AzureBlobOperator.archive, lines 543-546: the set_tier pass
AzureBlobOperator_archive ==
    /\ pc = "start" /\ vendor = VENDOR_AZURE /\ cmd = "archive"
    /\ StartPass("tier", Capitalize(BLOB_TIER_HOT), Capitalize(BLOB_TIER_ARCHIVE),
                 FALSE, FALSE, "iter")
    /\ UNCHANGED <<command, peer, resolver, printed, store, rec, throttles, log>>

\* AzureBlobOperator.set_tier, lines 482-485, then restore/archive lines
\* 539-540 and 548-549: a second listing with the same source tier, and
\* set_tag(blobs, dst_tier) with excluded_indices_enabled left at its default
set_tier_end ==
    /\ pc = "post" /\ pass = "tier"
    /\ printed' = Append(printed,
                     IF errors # {} THEN Line("failed to set tier", 0, errors)
                     ELSE Line("set tier for blobs", processed, {}))
    /\ StartPass("tag", src_tier, dst_tier, FALSE, FALSE, "load")
    /\ UNCHANGED <<command, peer, resolver, store, rec, throttles, log>>

(***************************************************************************)
(* get_excluded_indices: the exclusion set loaded at the start of set_tag  *)
(***************************************************************************)
CanThrottle == vendor = VENDOR_AZURE /\ throttles < MaxThrottle

\* A load that lets the exception of the download end the command
ExclusionReadError_raised == "aborted"

\* get_excluded_indices, lines 94-96: 'except Exception' logs the failure
\* and the function returns the empty list; set_tag goes on to its loop
ExclusionReadError == "iter"

get_excluded_indices ==
    /\ pc = "load"
    /\ \/ \* the download succeeds and the file is parsed
          /\ exclFile.present
          /\ excluded_indices' = Range(exclFile.list)
          /\ log' = Append(log, Ev("download", 0, "ok"))
          /\ pc' = "iter"
          /\ UNCHANGED <<throttles, printed>>
       \/ \* the download raises (object absent or read failure): caught,
          \* logged, the list stays empty
          /\ excluded_indices' = {}
          /\ log' = Append(log, Ev("download", 0, "error"))
          /\ printed' = Append(printed, Line("failed to read", 0, {}))
          /\ pc' = ExclusionReadError
          /\ UNCHANGED throttles
       \/ \* AzureBlobOperator.download: throttled, retried after the sleep
          /\ CanThrottle
          /\ throttles' = throttles + 1
          /\ log' = Append(log, Ev("download", 0, "throttled"))
          /\ UNCHANGED <<excluded_indices, pc, printed>>
    /\ UNCHANGED <<command, peer, resolver, store, passvars, generator, cur, errors, processed,
                   indices_diff, rec, batch0>>

(***************************************************************************)
(* get_blobs: the lazy paginated lister                                    *)
(***************************************************************************)
ListCommand ==
    IF vendor = VENDOR_AWS THEN S3ListCommand(marker) ELSE AzureListCommand(marker)

ListQuery ==
    IF vendor = VENDOR_AWS THEN get_blobs_query(args)
    ELSE get_included_blobs_query(args, src_tier, force)

\* The names the generator yields from a response, and the marker it keeps
NamesOf(resp) ==
    IF vendor = VENDOR_AWS
    THEN S3YieldedNames(resp.blobs, tier, force, get_storage_class(src_tier))
    ELSE AzureResponseNames(ListQuery, resp.blobs, tier)

MarkerOf(token) ==
    IF vendor = VENDOR_AWS THEN S3Marker(token) ELSE AzureMarker(token)

\* A failed listing taken for the end of the listing
BlobOperatorException_swallowed == "post"

\* get_blobs raises BlobOperatorException (lines 221, 441); no caller catches
\* it, the command ends there
BlobOperatorException == "aborted"

\* A lister that clears found_next_marker at the top of its loop, as
\* S3Operator.get_blobs does: a throttled call then ends the listing
continue_after_throttling_flag_cleared(found) == FALSE

\* AzureBlobOperator.get_blobs, lines 436-439 and 443: 'continue' on a
\* throttled call comes before 'found_next_marker = False', so the loop
\* condition still holds and marker is the one of the throttled call
continue_after_throttling(found) == found

\* one listing call of get_blobs
get_blobs_page ==
    /\ pc = "iter" /\ page = <<>> /\ found_next_marker
    /\ \/ \* the call succeeds
          /\ CommandAccepted(vendor, ListCommand)
          /\ CursorOf(vendor, ListCommand) >= 0
          /\ LET resp == StorePage(vendor, ListQuery.prefix,
                                   CursorOf(vendor, ListCommand),
                                   ListQuery.num_results)
             IN /\ page' = NamesOf(resp)
                /\ UNCHANGED yielded
                /\ found_next_marker' = (resp.next # "")
                /\ marker' = IF resp.next # "" THEN MarkerOf(resp.next) ELSE marker
          /\ log' = Append(log, Ev("list", CursorOf(vendor, ListCommand), "ok"))
          /\ UNCHANGED <<pc, throttles>>
       \/ \* the call fails (the tool rejects the command line, or the store
          \* fails the call): BlobOperatorException ends the command
          /\ pc' = BlobOperatorException
          /\ log' = Append(log, Ev("list", 0,
                        IF CommandAccepted(vendor, ListCommand) THEN "error"
                        ELSE "rejected"))
          /\ UNCHANGED <<generator, throttles>>
       \/ \* AzureBlobOperator.get_blobs: throttled, same marker again
          /\ CanThrottle
          /\ CommandAccepted(vendor, ListCommand)
          /\ throttles' = throttles + 1
          /\ log' = Append(log, Ev("list", 0, "throttled"))
          /\ found_next_marker' = continue_after_throttling(found_next_marker)
          /\ UNCHANGED <<marker, page, yielded, pc>>
    /\ UNCHANGED <<command, peer, resolver, printed, store, passvars, locals, rec, batch0>>

\* the generator is exhausted: the for loop of the pass ends
get_blobs_end ==
    /\ pc = "iter" /\ page = <<>> /\ ~found_next_marker
    /\ pc' = "post"
    /\ UNCHANGED <<command, peer, resolver, printed, store, passvars, generator, locals, rec, throttles,
                   batch0, log>>

(***************************************************************************)
(* set_tier and set_tag: the per-blob loops                                *)
(***************************************************************************)
\* set_tier, line 478: the next blob of the generator goes to the retry loop
set_tier_next ==
    /\ pc = "iter" /\ pass = "tier" /\ page # <<>>
    /\ cur' = Head(page)
    /\ page' = Tail(page)
    /\ yielded' = Append(yielded, Head(page))
    /\ pc' = "op"
    /\ UNCHANGED <<command, peer, resolver, printed, store, passvars, marker, found_next_marker, errors,
                   processed, indices_diff, excluded_indices, rec, throttles,
                   batch0, log>>

\* set_tag, lines 255-263 / 511-519: pattern match, touched index, skip rule
\* A loop that records the index of a blob only when it tags the blob
indices_diff_add_unless_skipped(diff, index_id, skipped) ==
    IF skipped THEN diff ELSE diff \cup {index_id}

\* set_tag, lines 260-261 / 516-517: indices_diff.add(index_id) comes before
\* the skip test
indices_diff_add(diff, index_id, skipped) == diff \cup {index_id}

\* set_tag, lines 255-263 / 511-519: the next blob of the generator
set_tag_next ==
    /\ pc = "iter" /\ pass = "tag" /\ page # <<>>
    /\ page' = Tail(page)
    /\ yielded' = Append(yielded, Head(page))
    /\ LET blob == Head(page)
           index_id == BLOB_INDEX_ID_RE(vendor, BlobName(vendor, blob))
       IN IF index_id = ""
          THEN UNCHANGED <<cur, indices_diff, pc>>
          ELSE /\ indices_diff' = indices_diff_add(indices_diff, index_id,
                         enabled /\ should_skip_index(index_id, dst_tier,
                                                       excluded_indices))
               /\ IF enabled /\ should_skip_index(index_id, dst_tier, excluded_indices)
                  THEN UNCHANGED <<cur, pc>>
                  ELSE cur' = blob /\ pc' = "op"
    /\ UNCHANGED <<command, peer, resolver, printed, store, passvars, marker, found_next_marker, errors,
                   processed, excluded_indices, rec, throttles, batch0, log>>

\* A retry loop that takes a throttled outcome for a final one and moves on
RetryLoop_no_retry(out) ==
    /\ processed' = processed + 1
    /\ cur' = 0
    /\ pc' = "iter"

\* A retry loop that ends the command at the first failed call
RetryLoop_abort_on_error(out) ==
    IF out = "throttled"
    THEN UNCHANGED <<cur, processed, pc>>
    ELSE /\ processed' = processed + 1
         /\ cur' = 0
         /\ pc' = IF out = "error" THEN "aborted" ELSE "iter"

\* A retry loop that counts every attempt, throttled ones included
RetryLoop_count_attempts(out) ==
    IF out = "throttled"
    THEN /\ processed' = processed + 1
         /\ UNCHANGED <<cur, pc>>
    ELSE /\ processed' = processed + 1
         /\ cur' = 0
         /\ pc' = "iter"

\* What the retry loop does after an outcome of the per-blob operation:
\* a throttled outcome (the operation returned False) repeats it on the same
\* blob, any other outcome counts the blob and goes on to the next one
RetryLoop(out) ==
    IF out = "throttled"
    THEN UNCHANGED <<cur, processed, pc>>
    ELSE /\ processed' = processed + 1
         /\ cur' = 0
         /\ pc' = "iter"

\* What the store answers to a per-blob call: done, failed, or rejected for
\* rate limiting (at most MaxThrottle times in a run)
Replies ==
    {"ok", "error"} \cup (IF throttles < MaxThrottle THEN {"throttled"} ELSE {})

\* The outcome a per-blob operation hands to the retry loop.  The Azure
\* operations return False when is_throttled(err); S3Operator._set_tag and
\* _restore append every non-zero exit to errors and return True.
Outcome(v, reply) ==
    IF v = VENDOR_AWS /\ reply = "throttled" THEN "error" ELSE reply

\* The outcomes an operator can tell apart: S3Operator._set_tag returns True
\* whatever happened, the Azure operations return False when throttled
Outcomes == {Outcome(vendor, r) : r \in Replies}

Throttled(reply) == IF reply = "throttled" THEN throttles + 1 ELSE throttles

\* AzureBlobOperator._set_tier inside the loop of set_tier.  A tier change to
\* Hot that the store accepts may still be pending (rehydration) when the
\* command lists again.
_set_tier ==
    /\ pc = "op" /\ pass = "tier"
    /\ \E reply \in Replies :
         LET out == Outcome(vendor, reply) IN
         /\ out \in Outcomes
         /\ log' = Append(log, EvReply("set_tier", cur, out, reply))
         /\ errors' = IF out = "error" THEN errors \cup {cur} ELSE errors
         /\ IF out = "ok"
            THEN \/ tier' = [tier EXCEPT ![cur] = dst_tier]
                 \/ dst_tier = "Hot" /\ tier' = tier
            ELSE tier' = tier
         /\ throttles' = Throttled(reply)
         /\ RetryLoop(out)
    /\ UNCHANGED <<command, peer, resolver, printed, tag, exclFile, passvars, generator, indices_diff,
                   excluded_indices, rec, batch0>>

\* S3Operator._set_tag / AzureBlobOperator._set_tag inside the loop of set_tag
_set_tag ==
    /\ pc = "op" /\ pass = "tag"
    /\ \E reply \in Replies :
         LET out == Outcome(vendor, reply) IN
         /\ out \in Outcomes
         /\ log' = Append(log, EvReply("set_tag", cur, out, reply))
         /\ errors' = IF out = "error" THEN errors \cup {cur} ELSE errors
         /\ tag' = IF out = "ok" THEN [tag EXCEPT ![cur] = dst_tier] ELSE tag
         /\ throttles' = Throttled(reply)
         /\ RetryLoop(out)
    /\ UNCHANGED <<command, peer, resolver, printed, tier, exclFile, passvars, generator, indices_diff,
                   excluded_indices, rec, batch0>>

\* set_tag, lines 269-275 / 525-531
set_tag_end ==
    /\ pc = "post" /\ pass = "tag"
    /\ IF /\ ReconcileWanted(errors, enabled, indices_diff)
          /\ update_excluded_index(dst_tier) # "none"
       THEN /\ rec' = [fn |-> update_excluded_index(dst_tier),
                       ids |-> indices_diff, downloaded |-> Absent,
                       indices |-> <<>>, ret |-> "done"]
            /\ pc' = "download"
            /\ UNCHANGED printed
       ELSE /\ pc' = "done"
            /\ printed' = Append(printed,
                     IF errors # {} THEN Line("failed to set tags", 0, errors)
                     ELSE Line("set tags for blobs", processed, {}))
            /\ UNCHANGED rec
    /\ UNCHANGED <<command, peer, resolver, store, passvars, generator, locals, throttles,
                   batch0, log>>

(***************************************************************************)
(* _update_excluded_indices: download, update, upload                      *)
(***************************************************************************)
\* lines 131-141: download with ignore_error, then the update function on the
\* downloaded list; the ids are iterated in some order of the set
update_download ==
    /\ pc = "download"
    /\ \/ /\ exclFile.present
          /\ \E order \in Orders(rec.ids) :
               rec' = [rec EXCEPT !.downloaded = exclFile,
                                  !.indices = UpdatedIndices(rec.fn, order, exclFile)]
          /\ log' = Append(log, Ev("download", 0, "ok"))
          /\ pc' = "upload"
          /\ UNCHANGED throttles
       \/ \* no local file: the object is absent, or the download failed and
          \* the failure was ignored
          /\ rec' = [rec EXCEPT !.downloaded = Absent,
                                 !.indices = UpdatedIndices(rec.fn, <<>>, Absent)]
          /\ log' = Append(log, Ev("download", 0, "error"))
          /\ pc' = "upload"
          /\ UNCHANGED throttles
       \/ /\ CanThrottle
          /\ throttles' = throttles + 1
          /\ log' = Append(log, Ev("download", 0, "throttled"))
          /\ UNCHANGED <<rec, pc>>
    /\ UNCHANGED <<command, peer, resolver, printed, store, passvars, generator, locals, batch0>>

\* line 143: upload of the rewritten list
update_upload ==
    /\ pc = "upload"
    /\ \/ \* the upload succeeds; back in set_tag, line 275 / 531 reports
          \* the batch
          /\ exclFile' = File(rec.indices)
          /\ log' = Append(log, Ev("upload", 0, "ok"))
          /\ pc' = rec.ret
          /\ printed' = IF rec.ret = "done"
                         THEN Append(printed, Line("set tags for blobs", processed, {}))
                         ELSE printed
          /\ UNCHANGED throttles
       \/ \* BlobOperatorException ends the command
          /\ log' = Append(log, Ev("upload", 0, "error"))
          /\ pc' = "aborted"
          /\ UNCHANGED <<exclFile, throttles, printed>>
       \/ /\ CanThrottle
          /\ throttles' = throttles + 1
          /\ log' = Append(log, Ev("upload", 0, "throttled"))
          /\ UNCHANGED <<exclFile, pc, printed>>
    /\ UNCHANGED <<command, peer, resolver, tier, tag, passvars, generator, locals, rec, batch0>>

(***************************************************************************)
(* S3Operator.sync                                                         *)
(***************************************************************************)
S3Url(name) == <<"s3:", "", "BUCKET">> \o name

\* _sync, lines 300-309: the index ids found in the output of the copy, one
\* line 'copy: <url> to <url>' for every object under the prefix
SyncOutputIds(prefix) ==
    {INDEX_ID_RE(S3Url(BlobName(VENDOR_AWS, b))) :
        b \in Range(SelectBlobs(VENDOR_AWS, prefix, 1))} \ {""}

\* A sync that goes on to tag whatever the reset reported
sync_continues_despite_errors(failed) == "sync_tag"

\* S3Operator.sync, lines 335-339: return when _sync collected an error,
\* else go on to the tagging pass
sync_continues(failed) == IF failed THEN "done" ELSE "sync_tag"

\* S3Operator.sync line 334 with _sync: the in-place copy to STANDARD
S3Operator_sync ==
    /\ pc = "start" /\ vendor = VENDOR_AWS /\ cmd = "sync"
    /\ \/ \* the copy fails: sync logs the error and returns
          /\ log' = Append(log, Ev("sync", 0, "error"))
          /\ pc' = sync_continues(TRUE)
          /\ printed' = Append(printed, Line("failed to set storage class", 0, {}))
          /\ UNCHANGED <<tier, rec>>
       \/ /\ log' = Append(log, Ev("sync", 0, "ok"))
          /\ UNCHANGED printed
          /\ tier' = [b \in Blobs |->
                        IF b \in Range(SelectBlobs(VENDOR_AWS, args.included_prefix, 1))
                        THEN "Hot" ELSE tier[b]]
          /\ IF args.excluded_indices_enabled
             THEN /\ rec' = [fn |-> "add", ids |-> SyncOutputIds(args.included_prefix),
                             downloaded |-> Absent, indices |-> <<>>,
                             ret |-> sync_continues(FALSE)]
                  /\ pc' = "download"
             ELSE /\ pc' = sync_continues(FALSE)
                  /\ UNCHANGED rec
    /\ UNCHANGED <<command, peer, resolver, tag, exclFile, passvars, generator, locals,
                   throttles, batch0>>

\* S3Operator.sync, lines 339-341: list the archive-class blobs, tag them Hot
S3Operator_sync_tag ==
    /\ pc = "sync_tag"
    /\ StartPass("tag", BLOB_TIER_ARCHIVE, Capitalize(BLOB_TIER_HOT), FALSE,
                 FALSE, "load")
    /\ UNCHANGED <<command, peer, resolver, printed, store, rec, throttles, log>>

(***************************************************************************)
(* S3Operator.restore                                                      *)
(***************************************************************************)
\* restore, lines 320-322: list the archive-class blobs
S3Operator_restore ==
    /\ pc = "start" /\ vendor = VENDOR_AWS /\ cmd = "restore"
    /\ StartPass("restore", BLOB_TIER_ARCHIVE, "", FALSE, FALSE, "iter")
    /\ UNCHANGED <<command, peer, resolver, printed, store, rec, throttles, log>>

\* restore, line 323: the next blob of the generator goes to the retry loop
restore_next ==
    /\ pc = "iter" /\ pass = "restore" /\ page # <<>>
    /\ cur' = Head(page)
    /\ page' = Tail(page)
    /\ yielded' = Append(yielded, Head(page))
    /\ pc' = "op"
    /\ UNCHANGED <<command, peer, resolver, printed, store, passvars, marker, found_next_marker,
                   errors, processed, indices_diff, excluded_indices, rec,
                   throttles, batch0, log>>

\* S3Operator._restore inside the loop of restore: the request for a
\* temporary copy leaves storage class and tag as they are
_restore ==
    /\ pc = "op" /\ pass = "restore"
    /\ \E reply \in Replies :
         LET out == Outcome(vendor, reply) IN
         /\ out \in Outcomes
         /\ log' = Append(log, EvReply("restore", cur, out, reply))
         /\ errors' = IF out = "error" THEN errors \cup {cur} ELSE errors
         /\ throttles' = Throttled(reply)
         /\ RetryLoop(out)
    /\ UNCHANGED <<command, peer, resolver, printed, store, passvars, generator, indices_diff,
                   excluded_indices, rec, batch0>>

\* restore, lines 327-330: the report of the batch
restore_end ==
    /\ pc = "post" /\ pass = "restore"
    /\ printed' = Append(printed,
                     IF errors # {} THEN Line("failed to restore", 0, errors)
                     ELSE Line("restore for blobs", processed, {}))
    /\ pc' = "done"
    /\ UNCHANGED <<command, peer, resolver, store, passvars, generator, locals, rec, throttles,
                   batch0, log>>

(***************************************************************************)
(* get_prefix: index names to index ids                                    *)
(***************************************************************************)
\* Python's None
None == "None"

\* do_get_prefix, lines 106-110: the id of every name, None where the
\* metadata has no such index
ResolveIds(metadata, names) ==
    [i \in 1..Len(names) |->
        IF names[i] \in DOMAIN metadata THEN metadata[names[i]] ELSE None]

\* do_get_prefix, lines 109-110: the names whose id is None
MissingNames(metadata, names) ==
    SelectSeq(names, LAMBDA n : n \notin DOMAIN metadata)

\* do_get_prefix taking several metadata objects for one
IncorrectNumber_only_none(blobs) == Len(blobs) = 0

\* do_get_prefix / get_index_metadata: len(blobs) != 1
IncorrectNumber(blobs) == Len(blobs) # 1

\* A get_prefix that goes on to tag the listed blobs Hot
get_prefix_return_into_tagging == "sync_tag"

\* get_prefix: the position of the command after its last print
get_prefix_return == "done"

\* S3Operator.get_prefix / AzureBlobOperator.get_prefix, line 382 / 624
get_prefix ==
    /\ pc = "start" /\ cmd = "get_prefix"
    /\ pc' = "list_index"
    /\ UNCHANGED <<command, peer, resolver, printed, store, passvars, generator,
                   locals, rec, throttles, batch0, log>>

\* get_index_blobs, called by do_get_prefix (line 99) and once more by
\* get_index_metadata (line 70); each caller wants exactly one object
get_index_blobs ==
    /\ pc \in {"list_index", "list_index_again"}
    /\ \/ /\ log' = Append(log, Ev("list_index", 0, "ok"))
          /\ IF IncorrectNumber(index_blobs)
             THEN /\ printed' = Append(printed,
                        Line("find incorrect number of index files",
                             Len(index_blobs), {}))
                  \* do_get_prefix returns None; get_index_metadata returns
                  \* None and metadata.get raises AttributeError
                  /\ pc' = IF pc = "list_index" THEN "print" ELSE "aborted"
             ELSE /\ pc' = IF pc = "list_index" THEN "list_index_again"
                           ELSE "load_metadata"
                  /\ UNCHANGED printed
          /\ UNCHANGED throttles
       \/ \* BlobOperatorException ends the command
          /\ log' = Append(log, Ev("list_index", 0, "error"))
          /\ pc' = "aborted"
          /\ UNCHANGED <<printed, throttles>>
       \/ \* AzureBlobOperator.get_index_blobs: throttled, listed again
          /\ CanThrottle
          /\ throttles' = throttles + 1
          /\ log' = Append(log, Ev("list_index", 0, "throttled"))
          /\ UNCHANGED <<printed, pc>>
    /\ UNCHANGED <<command, peer, resolver, store, passvars, generator, locals, rec,
                   batch0>>

\* get_index_metadata, lines 74-82: download the metadata object and parse
\* it; then do_get_prefix, lines 104-113: resolve the names in order
do_get_prefix ==
    /\ pc = "load_metadata"
    /\ \/ /\ log' = Append(log, Ev("download", index_blobs[1], "ok"))
          /\ index_ids' = ResolveIds(IndexMetadata, args.names)
          /\ missing_names' = MissingNames(IndexMetadata, args.names)
          /\ printed' =
                IF ResolveIds(IndexMetadata, args.names) = <<>>
                THEN Append(printed, Line("failed to find index id of indices", 0,
                                          MissingNames(IndexMetadata, args.names)))
                ELSE printed
          /\ pc' = "print"
          /\ UNCHANGED throttles
       \/ \* the download raises: the command ends
          /\ log' = Append(log, Ev("download", index_blobs[1], "error"))
          /\ pc' = "aborted"
          /\ UNCHANGED <<index_ids, missing_names, printed, throttles>>
       \/ /\ CanThrottle
          /\ throttles' = throttles + 1
          /\ log' = Append(log, Ev("download", index_blobs[1], "throttled"))
          /\ UNCHANGED <<index_ids, missing_names, printed, pc>>
    /\ UNCHANGED <<command, peer, index_blobs, store, passvars, generator, locals,
                   rec, batch0>>

\* get_prefix, lines 383-386 / 625-628: the prints; " ".join(index_ids)
\* raises TypeError when an id is None
get_prefix_print ==
    /\ pc = "print"
    /\ IF index_ids = <<>>
       THEN /\ pc' = get_prefix_return
            /\ UNCHANGED printed
       ELSE IF \E i \in 1..Len(index_ids) : index_ids[i] = None
       THEN /\ printed' = printed \o
                  << Line("get prefix of indices", 0, COMMON_INDEX_PREFIX(vendor)),
                     Line("get id of indices", 0, index_ids) >>
            /\ pc' = "aborted"
       ELSE /\ printed' = printed \o
                  << Line("get prefix of indices", 0, COMMON_INDEX_PREFIX(vendor)),
                     Line("get id of indices", 0, index_ids),
                     Line("get id of indices (for bash)", 0, index_ids) >>
            /\ pc' = get_prefix_return
    /\ UNCHANGED <<command, peer, resolver, store, passvars, generator, locals, rec,
                   throttles, batch0, log>>

Next ==
    \/ get_prefix
    \/ get_index_blobs
    \/ do_get_prefix
    \/ get_prefix_print
    \/ S3Operator_tag
    \/ S3Operator_restore
    \/ restore_next
    \/ _restore
    \/ restore_end
    \/ AzureBlobOperator_tag
    \/ AzureBlobOperator_restore
    \/ AzureBlobOperator_archive
    \/ S3Operator_sync
    \/ S3Operator_sync_tag
    \/ get_excluded_indices
    \/ get_blobs_page
    \/ get_blobs_end
    \/ set_tier_next
    \/ set_tier_end
    \/ set_tag_next
    \/ set_tag_end
    \/ _set_tier
    \/ _set_tag
    \/ update_download
    \/ update_upload

Spec == Init /\ [][Next]_vars

(***************************************************************************)
(* Two invocations.  The program takes no lock and the store gives no      *)
(* version token: a second invocation of the program runs                  *)
(* _update_excluded_indices on the same exclusion object while the first   *)
(* one runs its tag command.  The second invocation is followed only       *)
(* through its reconcile, which is the same code: download, update,        *)
(* upload.                                                                 *)
(***************************************************************************)
\* the second invocation reaches update_excluded_index with its touched ids
peer_start ==
    /\ peer.pc = "idle"
    /\ \E fn \in {"add", "remove"}, ids \in (SUBSET IndexIds) \ {{}} :
         peer' = [NoPeer EXCEPT !.pc = "download", !.fn = fn, !.ids = ids]
    /\ UNCHANGED <<command, resolver, printed, store, pc, passvars, generator,
                   locals, rec, throttles, batch0, log>>

\* _update_excluded_indices of the second invocation, lines 131-141
peer_download ==
    /\ peer.pc = "download"
    /\ \/ /\ exclFile.present
          /\ \E order \in Orders(peer.ids) :
               peer' = [peer EXCEPT !.pc = "upload", !.downloaded = exclFile,
                           !.indices = UpdatedIndices(peer.fn, order, exclFile)]
          /\ log' = Append(log, Ev("peer_download", 0, "ok"))
       \/ /\ peer' = [peer EXCEPT !.pc = "upload", !.downloaded = Absent,
                           !.indices = UpdatedIndices(peer.fn, <<>>, Absent)]
          /\ log' = Append(log, Ev("peer_download", 0, "error"))
    /\ UNCHANGED <<command, resolver, printed, store, pc, passvars, generator,
                   locals, rec, throttles, batch0>>

\* _update_excluded_indices of the second invocation, line 143
peer_upload ==
    /\ peer.pc = "upload"
    /\ \/ /\ exclFile' = File(peer.indices)
          /\ peer' = [peer EXCEPT !.pc = "done"]
          /\ log' = Append(log, Ev("peer_upload", 0, "ok"))
       \/ /\ peer' = [peer EXCEPT !.pc = "aborted"]
          /\ log' = Append(log, Ev("peer_upload", 0, "error"))
          /\ UNCHANGED exclFile
    /\ UNCHANGED <<command, resolver, printed, tier, tag, pc, passvars,
                   generator, locals, rec, throttles, batch0>>

\* The first invocation is a tag command with exclusion enabled over the
\* files of one index, all of the backup being in Hot storage
ConcInit ==
    /\ Init
    /\ cmd = "tag"
    /\ args.included_prefix = COMMON_INDEX_PREFIX(vendor) \o <<"idx-1">>
    /\ args.excluded_indices_enabled
    /\ args.src_tier = BLOB_TIER_HOT /\ ~args.force
    /\ tier = [b \in Blobs |-> "Hot"]

ConcNext ==
    \/ S3Operator_tag
    \/ AzureBlobOperator_tag
    \/ get_excluded_indices
    \/ get_blobs_page
    \/ get_blobs_end
    \/ set_tag_next
    \/ _set_tag
    \/ set_tag_end
    \/ update_download
    \/ update_upload
    \/ peer_start
    \/ peer_download
    \/ peer_upload

ConcSpec == ConcInit /\ [][ConcNext]_vars

\* The command is one sequential flow of control: it always takes its next
\* step (a backoff sleep ends, a subprocess returns).
\* Liveness is checked from the stores whose exclusion object is ["idx-1"],
\* with the prefix of the whole backup, exclusion left enabled (the default) and the
\* smallest and the largest page size.
LiveInit ==
    /\ Init
    /\ args.included_prefix = BackupPrefix
    /\ args.excluded_indices_enabled
    /\ args.page_size \in {1, MaxPageSize}
    /\ exclFile = File(<<"idx-1">>)

LiveSpec == LiveInit /\ [][Next]_vars /\ WF_vars(Next)

(***************************************************************************)
(* Vocabulary of the properties                                            *)
(***************************************************************************)
Terminated == pc \in {"done", "aborted"}

\* positions of the log that belong to the running pass
BatchLog == (batch0.at + 1)..Len(log)

\* some call of op on blob b in the running pass ended with outcome out
Issued(op, b, out) ==
    \E i \in BatchLog : log[i].op = op /\ log[i].blob = b /\ log[i].out = out

\* some call of op on blob b was issued in the running pass
Attempted(op, b) ==
    \E i \in BatchLog : log[i].op = op /\ log[i].blob = b

\* the index a listed blob belongs to ("" when its name does not match)
IndexIdOf(b) == BLOB_INDEX_ID_RE(vendor, BlobName(vendor, b))

Yielded == Range(yielded)

\* no store call of the command failed or was throttled
NoFailure == \A i \in 1..Len(log) : log[i].out = "ok"

TagToArchive == cmd = "tag" /\ pass = "tag" /\ Lower(dst_tier) = BLOB_TIER_ARCHIVE

(***************************************************************************)
(* C1: tag to Archive with exclusion enabled over blobs of idx-1           *)
(* (excluded) and idx-2 (not excluded), without any failure: only the      *)
(* blobs of idx-2 are tagged and the persisted exclusion list is still     *)
(* ["idx-1"] when the command is done.                                     *)
(***************************************************************************)
\* C1, the scenario: the command is done, nothing failed, both indices listed
C1_Scenario ==
    /\ TagToArchive /\ enabled /\ pc = "done"
    /\ args.src_tier = BLOB_TIER_HOT /\ ~args.force
    /\ excl0 = File(<<"idx-1">>)
    /\ NoFailure
    /\ \E b \in Yielded : IndexIdOf(b) = "idx-1"
    /\ \E b \in Yielded : IndexIdOf(b) = "idx-2"

\* C1: in the scenario only idx-2's blobs were tagged and the exclusion list
\* is still ["idx-1"]
C1_ExclusionKept ==
    C1_Scenario =>
        /\ \A b \in Blobs : Attempted("set_tag", b) => IndexIdOf(b) = "idx-2"
        /\ \A b \in Yielded : IndexIdOf(b) = "idx-2" => tag[b] = dst_tier
        /\ exclFile = File(<<"idx-1">>)

\* C1, what the code does in the scenario: the tags are as claimed, and the
\* skipped index idx-1 is removed from the exclusion list
C1_Observed ==
    C1_Scenario =>
        /\ \A b \in Blobs : Attempted("set_tag", b) => IndexIdOf(b) = "idx-2"
        /\ \A b \in Yielded : IndexIdOf(b) = "idx-2" => tag[b] = dst_tier
        /\ exclFile = File(<<>>)

(***************************************************************************)
(* C2: in a tag batch to Archive, a listed blob whose index is in the      *)
(* exclusion set loaded at the start of the batch gets no set-tag call     *)
(* when exclusion is enabled, and always gets one (to Archive) when        *)
(* exclusion is disabled.                                                  *)
(***************************************************************************)
\* C2: tag to Archive never calls set-tag on a blob of a loaded excluded
\* index when exclusion is enabled, and always does when it is disabled
C2_ExcludedSkipped ==
    TagToArchive =>
        /\ enabled =>
             \A b \in Blobs :
                 IndexIdOf(b) \in excluded_indices =>
                     /\ ~Attempted("set_tag", b)
                     /\ cur # b
                     /\ tag[b] = tier0[b]
        /\ ~enabled =>
             \A b \in Yielded :
                 IndexIdOf(b) \in excluded_indices =>
                     /\ Attempted("set_tag", b) \/ (pc = "op" /\ cur = b)
                     /\ Issued("set_tag", b, "ok") => tag[b] = "Archive"
                     /\ (pc = "post" \/ Terminated) =>
                            Issued("set_tag", b, "ok") \/ Issued("set_tag", b, "error")

\* C2: a finished tag to Archive that skipped an excluded blob and tagged another
C2_Witness ==
    /\ TagToArchive /\ enabled /\ pc = "done"
    /\ \E b \in Yielded : IndexIdOf(b) \in excluded_indices
    /\ \E b \in Yielded : Issued("set_tag", b, "ok")

(***************************************************************************)
(* C3: a set_tag batch in which a per-blob set-tag call failed (not        *)
(* throttled) uploads nothing: the persisted exclusion object is the one   *)
(* of the start of the batch, and for tag, archive and restore the one of  *)
(* the start of the command.                                               *)
(***************************************************************************)
\* C3: a set_tag batch with a failed set-tag call leaves the exclusion
\* object as it was and uploads nothing
C3_FailedBatchKeepsExclusion ==
    (pass = "tag" /\ errors # {}) =>
        /\ exclFile = batch0.excl
        /\ \A i \in BatchLog : log[i].op # "upload"
        /\ pc \notin {"download", "upload"}
        /\ cmd # "sync" => exclFile = excl0

\* C3: a finished batch with a failure that would otherwise have reconciled
C3_Witness ==
    /\ pass = "tag" /\ pc = "done" /\ errors # {}
    /\ enabled /\ indices_diff # {}
    /\ \E b \in Blobs : Issued("set_tag", b, "ok")

(***************************************************************************)
(* C4 (as claimed): within one command every write of the exclusion        *)
(* object comes after all per-blob tag calls of the command's batch have   *)
(* been attempted, none of them failed, and no tag call follows a write.   *)
(***************************************************************************)
Reconciling == pc \in {"download", "upload"}
LoopOver == page = <<>> /\ ~found_next_marker /\ cur = 0

NoTagAfterUpload ==
    \A i, j \in 1..Len(log) :
        (i < j /\ log[i].op = "upload") => log[j].op \notin {"set_tag", "set_tier"}

\* C4 as claimed: the exclusion object is written only once the tagging loop
\* of the command is over without errors, and no tag call follows a write
C4_WriteAfterAllTags ==
    /\ Reconciling => (pass = "tag" /\ LoopOver /\ errors = {})
    /\ NoTagAfterUpload

(***************************************************************************)
(* C4 (amended): in tag, archive and restore every write of the exclusion  *)
(* object comes after all per-blob tag calls of the batch have been        *)
(* attempted, only if none failed, and no tag call follows it; sync writes *)
(* the exclusion object in its reset step, before its tagging pass         *)
(* starts, and its tagging pass writes nothing.                            *)
(***************************************************************************)
\* C4 amended: as claimed for tag, archive and restore; sync writes in its
\* reset step before its tagging pass, which writes nothing
C4_WriteAfterAllTagsExceptSync ==
    /\ Reconciling =>
         \/ /\ cmd # "sync" /\ rec.ret = "done"
            /\ pass = "tag" /\ LoopOver /\ errors = {}
            /\ \A i \in 1..Len(log) : log[i].op # "upload" \/ log[i].out = "throttled"
         \/ /\ cmd = "sync" /\ rec.ret = "sync_tag"
            /\ pass = "none"
            /\ \A i \in 1..Len(log) : log[i].op # "set_tag"
    /\ NoTagAfterUpload
    /\ (cmd = "sync" /\ pass = "tag") =>
         \A i \in BatchLog : log[i].op # "upload"

\* C4: a tag command about to upload after at least two set-tag calls
C4_Witness ==
    /\ cmd = "tag" /\ pc = "upload"
    /\ \E b \in Blobs : Issued("set_tag", b, "ok")
    /\ Cardinality({i \in BatchLog : log[i].op = "set_tag"}) >= 2

(***************************************************************************)
(* C5: a reconcile that downloads and uploads without a failure persists   *)
(* old \cup touched for destination Hot and old \ touched for destination  *)
(* Archive, where an absent exclusion object counts as the empty set.      *)
(***************************************************************************)
JustUploaded == Len(log) > 0 /\ log[Len(log)] = Ev("upload", 0, "ok")

\* the exclusion object when the reconcile started
RecOld == IF rec.ret = "done" THEN batch0.excl ELSE excl0

\* the reconcile's download did not fail: it fetched the object, or there
\* was none to fetch
DownloadFaithful == rec.downloaded = RecOld

\* C5: after a reconcile whose download did not fail the persisted set is
\* old \cup touched (Hot) or old \ touched (Archive), absent counting as empty
C5_ReconcileReference ==
    (JustUploaded /\ DownloadFaithful) =>
        Range(exclFile.list) =
            IF rec.fn = "add" THEN Range(RecOld.list) \cup rec.ids
            ELSE Range(RecOld.list) \ rec.ids

\* C5, what the code does: the reference result when the object was fetched,
\* the empty list when no file was downloaded
C5_Observed ==
    JustUploaded =>
        /\ exclFile.present
        /\ Range(exclFile.list) =
             IF ~rec.downloaded.present THEN {}
             ELSE IF rec.fn = "add" THEN Range(RecOld.list) \cup rec.ids
             ELSE Range(RecOld.list) \ rec.ids

(***************************************************************************)
(* C6: a command that completes without any failure and moved blobs of an  *)
(* index to Hot (tag to Hot, Azure restore, AWS sync) leaves the index in  *)
(* the exclusion list; one that moved them to Archive (tag to Archive,     *)
(* Azure archive) leaves it out of the list.                               *)
(***************************************************************************)
IssuedAny(op, b, out) == \E i \in 1..Len(log) : log[i] = Ev(op, b, out)

MovedIds ==
    CASE cmd = "tag" -> {IndexIdOf(b) : b \in {x \in Blobs : IssuedAny("set_tag", x, "ok")}}
      [] cmd = "sync" -> SyncOutputIds(args.included_prefix)
      [] OTHER -> {IndexIdOf(b) : b \in {x \in Blobs : IssuedAny("set_tier", x, "ok")}} \ {""}

MovesTo ==
    CASE cmd = "tag" -> args.dst_tier
      [] cmd = "archive" -> BLOB_TIER_ARCHIVE
      [] OTHER -> BLOB_TIER_HOT

\* C6: a command done without failure leaves the indices it moved to Hot in
\* the exclusion list and the indices it moved to Archive out of it
C6_MoveUpdatesExclusion ==
    (pc = "done" /\ NoFailure /\ args.excluded_indices_enabled) =>
        IF MovesTo = BLOB_TIER_HOT
        THEN MovedIds \subseteq Range(exclFile.list)
        ELSE MovedIds \cap Range(exclFile.list) = {}

(***************************************************************************)
(* C7: when Azure archive or restore is done, every index blob whose tier  *)
(* the command set has its tag set to the destination label, and no blob   *)
(* whose tier change failed was tagged.                                    *)
(***************************************************************************)
\* C7: after archive/restore every index blob whose tier was set carries the
\* destination tag, and no blob whose tier change failed was tagged
C7_TierAndTagAgree ==
    (cmd \in {"archive", "restore"} /\ pc = "done") =>
        \A b \in Blobs :
            /\ (IssuedAny("set_tier", b, "ok") /\ IndexIdOf(b) # "")
                   => tag[b] = dst_tier
            /\ IssuedAny("set_tier", b, "error") => ~IssuedAny("set_tag", b, "ok")

(***************************************************************************)
(* C8: whenever the lister stops for another reason than a failure of the  *)
(* store, it has yielded exactly the matching names, each once, in order.  *)
(***************************************************************************)
Expected ==
    SelectSeq(SelectBlobs(vendor, args.included_prefix, 1),
              LAMBDA b : force \/ batch0.tier[b] = Capitalize(src_tier))

ListingStopped ==
    \/ pc = "post"
    \/ /\ pc = "aborted" /\ Len(log) > 0
       /\ log[Len(log)].op = "list" /\ log[Len(log)].out # "error"

\* C8: a lister that stopped without a store failure has yielded exactly the
\* matching names, each once
C8_ListsEveryNameOnce ==
    ListingStopped => yielded = Expected

\* C8, what the code does: the S3 lister follows every cursor
C8_S3Observed ==
    (vendor = VENDOR_AWS /\ ListingStopped) => yielded = Expected

(***************************************************************************)
(* C9: an add whose ids are all in the persisted list, and a remove whose  *)
(* ids are all absent from it, leave the persisted list as it was.         *)
(***************************************************************************)
\* C9: adding ids that are all present, or removing ids that are all absent,
\* leaves the persisted list unchanged
C9_Idempotent ==
    JustUploaded =>
        /\ (rec.fn = "add" /\ rec.ids \subseteq Range(RecOld.list))
               => exclFile.list = RecOld.list
        /\ (rec.fn = "remove" /\ rec.ids \cap Range(RecOld.list) = {})
               => exclFile.list = RecOld.list

\* C9, what the code does: idempotent whenever the download did not fail
C9_Observed ==
    (JustUploaded /\ DownloadFaithful) =>
        /\ (rec.fn = "add" /\ rec.ids \subseteq Range(RecOld.list))
               => exclFile.list = RecOld.list
        /\ (rec.fn = "remove" /\ rec.ids \cap Range(RecOld.list) = {})
               => exclFile.list = RecOld.list

(***************************************************************************)
(* C10: when the store throttles only finitely often, a per-blob           *)
(* operation that was throttled is issued again on the same blob, until    *)
(* it returns an outcome that is not throttled, and the command            *)
(* terminates.                                                             *)
(***************************************************************************)
PerBlobOps == {"set_tag", "set_tier", "restore"}

ThrottledOn(op, b) == Len(log) > 0 /\ log[Len(log)] = Ev(op, b, "throttled")

\* the last call issued was a throttled per-blob operation
LastThrottled == \E op \in PerBlobOps : \E b \in Blobs : ThrottledOn(op, b)

\* the last call issued was a per-blob operation that was not throttled
LastSettled ==
    /\ Len(log) > 0
    /\ log[Len(log)].op \in PerBlobOps
    /\ log[Len(log)].out \in {"ok", "error"}

\* the call issued after a throttled one is the same operation on the same blob
RetriedNext ==
    \A op \in PerBlobOps, b \in Blobs :
        ThrottledOn(op, b) =>
            \/ log' = log
            \/ log'[Len(log')].op = op /\ log'[Len(log')].blob = b

\* C10: a throttled per-blob call is repeated on the same blob until it is
\* not throttled, and the command terminates
C10_ThrottleRetryTerminates ==
    /\ [][RetriedNext]_vars
    /\ LastThrottled ~> LastSettled
    /\ <>Terminated

\* C10: a finished command in which a throttled set-tag call was repeated
\* on the same blob and then succeeded
C10_Witness ==
    /\ pc = "done"
    /\ \E i \in 1..(Len(log) - 1) : \E b \in Blobs :
         /\ log[i] = Ev("set_tag", b, "throttled")
         /\ log[i + 1] = Ev("set_tag", b, "ok")

(***************************************************************************)
(* C11: the processed count of a set-tier, set-tag or restore batch is the *)
(* number of blobs the batch operated on: a blob counts once, when its     *)
(* call returns an outcome that is not throttled, and the count the batch  *)
(* reports at its end is that number.                                      *)
(***************************************************************************)
\* the blobs on which a call of op returned an outcome that is not throttled
SettledBlobs(op) ==
    {b \in Blobs : \E i \in 1..Len(log) :
        log[i].op = op /\ log[i].blob = b /\ log[i].out # "throttled"}

\* the calls of op issued so far, throttled ones included
Attempts(op) == {i \in 1..Len(log) : log[i].op = op}

OpOfPass == [tier |-> "set_tier", tag |-> "set_tag", restore |-> "restore"]

OpOfReport ==
    [m \in {"set tier for blobs", "set tags for blobs", "restore for blobs"} |->
        CASE m = "set tier for blobs" -> "set_tier"
          [] m = "set tags for blobs" -> "set_tag"
          [] OTHER -> "restore"]

\* C11: processed equals the number of blobs operated on, during the batch
\* and in the count reported at its end, whatever the number of attempts
C11_ProcessedCountsBlobs ==
    /\ pass \in DOMAIN OpOfPass =>
          processed = Cardinality(SettledBlobs(OpOfPass[pass]))
    /\ \A k \in 1..Len(printed) :
          printed[k].msg \in DOMAIN OpOfReport =>
              printed[k].n = Cardinality(SettledBlobs(OpOfReport[printed[k].msg]))

\* C11: a finished batch that reports two blobs after three set-tag attempts
C11_Witness ==
    /\ pc = "done"
    /\ printed # <<>>
    /\ printed[Len(printed)] = Line("set tags for blobs", 2, {})
    /\ Cardinality(Attempts("set_tag")) = 3

(***************************************************************************)
(* C12: for both operators and every per-blob operation, a call the store  *)
(* rejects for rate limiting is not an error: the blob does not enter the  *)
(* error list of the batch, the call is repeated on the same blob, and     *)
(* only replies that are failures make the batch fail.                     *)
(***************************************************************************)
\* the blobs of the running batch on which the store failed a per-blob call
FailedBlobs ==
    {b \in Blobs : \E i \in BatchLog :
        log[i].op \in PerBlobOps /\ log[i].blob = b /\ log[i].reply = "error"}

\* the last call was a per-blob call the store rejected for rate limiting
LastRateLimited ==
    /\ Len(log) > batch0.at
    /\ log[Len(log)].op \in PerBlobOps
    /\ log[Len(log)].reply = "throttled"

ThrottleIsNotError ==
    /\ errors = FailedBlobs
    /\ LastRateLimited => (pc = "op" /\ cur = log[Len(log)].blob)

\* C12: in every batch of either operator the error list holds exactly the
\* blobs whose call failed, and a rate-limited call is about to be repeated
C12_ThrottleIsNotError ==
    pass \in DOMAIN OpOfPass => ThrottleIsNotError

\* C12, what the code does: the Azure operator treats rate limiting as
\* claimed; the S3 operator records a rate-limited call as a failure of the
\* blob and goes on to the next blob
C12_Observed ==
    pass \in DOMAIN OpOfPass =>
        IF vendor = VENDOR_AZURE THEN ThrottleIsNotError
        ELSE /\ errors = FailedBlobs \cup
                   {b \in Blobs : \E i \in BatchLog :
                       log[i].op \in PerBlobOps /\ log[i].blob = b
                       /\ log[i].reply = "throttled"}
             /\ LastRateLimited => cur # log[Len(log)].blob

(***************************************************************************)
(* C13: a failed per-blob tier or tag call does not stop the batch: the    *)
(* blobs yielded after it are still attempted unless a skip rule applies,  *)
(* the failures are reported in one line at the end of the batch, and the  *)
(* command is not aborted by them.                                         *)
(***************************************************************************)
\* the blob was handled by the loop of the running pass: it got a call with
\* a final outcome, or a skip rule of set_tag applied to it
Handled(b) ==
    \/ \E i \in BatchLog :
          log[i].op = OpOfPass[pass] /\ log[i].blob = b /\ log[i].out # "throttled"
    \/ /\ pass = "tag"
       /\ \/ IndexIdOf(b) = ""
          \/ enabled /\ should_skip_index(IndexIdOf(b), dst_tier, excluded_indices)

\* the blobs on which a call of op ended in a failure
ErrorBlobs(op) ==
    {b \in Blobs : \E i \in 1..Len(log) :
        log[i].op = op /\ log[i].blob = b /\ log[i].out = "error"}

FailureLines(msg) == {k \in 1..Len(printed) : printed[k].msg = msg}

\* the batch of op is over: its report line, if any, is due
BatchOver(op) ==
    CASE op = "set_tier" -> pass = "tag" /\ cmd \in {"archive", "restore"}
      [] op = "set_tag" -> pass = "tag" /\ pc = "done"
      [] OTHER -> pass = "restore" /\ pc = "done"

FailureReport ==
    [set_tier |-> "failed to set tier", set_tag |-> "failed to set tags",
     restore |-> "failed to restore"]

\* C13: a failed per-blob call leaves the loop running, every yielded blob
\* is handled, the failures are reported once, and only a failed listing or
\* upload aborts the command
C13_FailureDoesNotStopBatch ==
    /\ (pass \in DOMAIN OpOfPass /\ (pc \in {"post", "download", "upload", "done"}
                                       \/ (pc = "iter" /\ cur = 0))) =>
          \A b \in Yielded : Handled(b)
    /\ (pc = "aborted" /\ cmd # "get_prefix") =>
          /\ log[Len(log)].op \in {"list", "upload"}
          /\ log[Len(log)].out \in {"error", "rejected"}
    /\ \A op \in DOMAIN FailureReport :
          /\ Cardinality(FailureLines(FailureReport[op])) <= 1
          /\ \A k \in FailureLines(FailureReport[op]) :
                printed[k].names = ErrorBlobs(op) /\ printed[k].names # {}
          /\ (BatchOver(op) /\ ErrorBlobs(op) # {}) =>
                FailureLines(FailureReport[op]) # {}

\* C13: a finished tag batch in which a blob was tagged after the call on an
\* earlier blob had failed, and the failure is reported
C13_Witness ==
    /\ pc = "done" /\ pass = "tag"
    /\ \E i, j \in BatchLog :
          /\ i < j
          /\ log[i].op = "set_tag" /\ log[i].out = "error"
          /\ log[j].op = "set_tag" /\ log[j].out = "ok"
    /\ printed[Len(printed)] = Line("failed to set tags", 0, errors)

(***************************************************************************)
(* C14: a listing call that fails for a reason other than rate limiting    *)
(* aborts the command: on whichever page it happens, no tier or tag call   *)
(* and no write of the exclusion object follows it.                        *)
(***************************************************************************)
\* the positions of the log at which a listing call failed
FailedListings ==
    {i \in 1..Len(log) : log[i].op = "list" /\ log[i].out \in {"error", "rejected"}}

\* C14: a failed listing call is the last store call of the command, the
\* command is aborted, and the pass it ended has written no exclusion object
C14_ListingFailureAborts ==
    \A i \in FailedListings :
        /\ i = Len(log)
        /\ pc = "aborted"
        /\ exclFile = batch0.excl
        /\ \A j \in BatchLog : log[j].op # "upload"

\* C14: a command aborted by a failed listing of a later page, after a blob
\* of an earlier page was tagged
C14_Witness ==
    /\ pc = "aborted" /\ pass = "tag"
    /\ Len(log) \in FailedListings
    /\ \E i, j \in BatchLog :
          /\ i < j /\ j < Len(log)
          /\ log[i].op = "list" /\ log[i].out = "ok"
          /\ log[j].op = "set_tag" /\ log[j].out = "ok"

(***************************************************************************)
(* C15: get-prefix over names of which some are in the metadata and some   *)
(* are not resolves every name in order, reports the missing names, still  *)
(* prints the prefix and the ids that were found, and ends normally.       *)
(***************************************************************************)
\* do_get_prefix has resolved the names and the command is over
Resolved == cmd = "get_prefix" /\ Terminated /\ index_ids # <<>>

SomeFoundSomeMissing ==
    /\ \E i \in 1..Len(args.names) : args.names[i] \in DOMAIN IndexMetadata
    /\ \E i \in 1..Len(args.names) : args.names[i] \notin DOMAIN IndexMetadata

PrintedLines(msg) == {k \in 1..Len(printed) : printed[k].msg = msg}

InOrder ==
    /\ Len(index_ids) = Len(args.names)
    /\ \A i \in 1..Len(args.names) :
          index_ids[i] = IF args.names[i] \in DOMAIN IndexMetadata
                         THEN IndexMetadata[args.names[i]] ELSE None

\* C15: with found and missing names the ids are resolved in order, the
\* missing names are reported, prefix and ids are printed, the command ends
\* normally
C15_MissingNamesReported ==
    (Resolved /\ SomeFoundSomeMissing) =>
        /\ InOrder
        /\ \E k \in PrintedLines("failed to find index id of indices") :
              printed[k].names = missing_names
        /\ PrintedLines("get prefix of indices") # {}
        /\ PrintedLines("get id of indices") # {}
        /\ pc = "done"

\* C15, what the code does: the ids are resolved in order, with None for a
\* missing name; no missing name is ever reported; prefix and id list are
\* printed and the command then fails on the None in the list
C15_Observed ==
    Resolved =>
        /\ InOrder
        /\ PrintedLines("failed to find index id of indices") = {}
        /\ PrintedLines("get prefix of indices") # {}
        /\ printed[Len(printed)] =
              IF missing_names = <<>>
              THEN Line("get id of indices (for bash)", 0, index_ids)
              ELSE Line("get id of indices", 0, index_ids)
        /\ pc = IF missing_names = <<>> THEN "done" ELSE "aborted"

(***************************************************************************)
(* C16: index-name resolution needs exactly one metadata object: when the  *)
(* listing of the metadata prefix returns none or several, that is         *)
(* reported, no object is downloaded, no id is resolved and nothing is     *)
(* printed as a result.                                                    *)
(***************************************************************************)
ResultLines ==
    PrintedLines("get prefix of indices") \cup PrintedLines("get id of indices")
        \cup PrintedLines("get id of indices (for bash)")

\* C16: with no or several metadata objects get-prefix reports the number,
\* downloads nothing, resolves nothing and prints no result
C16_ExactlyOneMetadataObject ==
    (cmd = "get_prefix" /\ Len(index_blobs) # 1) =>
        /\ \A i \in 1..Len(log) : log[i].op = "list_index"
        /\ pc \notin {"list_index_again", "load_metadata"}
        /\ index_ids = <<>> /\ missing_names = <<>>
        /\ ResultLines = {}
        /\ pc \in {"print", "done"} =>
              printed = << Line("find incorrect number of index files",
                                Len(index_blobs), {}) >>

\* C16: a finished get-prefix that found two metadata objects
C16_Witness ==
    /\ cmd = "get_prefix" /\ pc = "done"
    /\ Len(index_blobs) = 2
    /\ printed = << Line("find incorrect number of index files", 2, {}) >>

(***************************************************************************)
(* C17: get-prefix is read-only: whatever its outcome it issues no         *)
(* set-tier, set-tag, restore or upload call, and the tier and tag of      *)
(* every blob and the exclusion object stay as they were.                  *)
(***************************************************************************)
\* C17: get-prefix only lists the metadata prefix and downloads the metadata
\* object; tiers, tags and the exclusion object are those of its start
C17_GetPrefixReadOnly ==
    cmd = "get_prefix" =>
        /\ \A i \in 1..Len(log) : log[i].op \in {"list_index", "download"}
        /\ tier = tier0 /\ tag = tier0
        /\ exclFile = excl0
        /\ pass = "none" /\ rec = NoRec

\* C17: a finished get-prefix that downloaded the metadata and printed ids
C17_Witness ==
    /\ cmd = "get_prefix" /\ pc = "done"
    /\ \E i \in 1..Len(log) : log[i].op = "download" /\ log[i].out = "ok"
    /\ PrintedLines("get id of indices (for bash)") # {}

(***************************************************************************)
(* C18: after an AWS sync whose reset succeeded and whose tagging pass     *)
(* reported no error, every index blob under the prefix that the reset     *)
(* moved back to Hot storage is tagged Hot, and with exclusion enabled     *)
(* every index id of the reset output is in the exclusion list.            *)
(***************************************************************************)
\* a sync whose reset succeeded has finished its tagging pass without errors
SyncDone ==
    /\ cmd = "sync" /\ pc = "done" /\ pass = "tag" /\ errors = {}
    /\ \E i \in 1..Len(log) : log[i].op = "sync" /\ log[i].out = "ok"

\* the index blobs the reset moved from Archive to Hot storage
ResetToHot ==
    {b \in Blobs : /\ IsPrefix(args.included_prefix, BlobName(vendor, b))
                   /\ IndexIdOf(b) # ""
                   /\ tier0[b] = "Archive" /\ tier[b] = "Hot"}

\* C18: after such a sync the blobs moved back to Hot are tagged Hot and the
\* ids of the reset output are excluded
C18_SyncTagsHot ==
    SyncDone =>
        /\ \A b \in ResetToHot : tag[b] = "Hot"
        /\ args.excluded_indices_enabled =>
              SyncOutputIds(args.included_prefix) \subseteq Range(exclFile.list)

\* C18, what the code does: the tagging pass lists the archive-class blobs
\* after the reset has left none, so it tags nothing
C18_Observed ==
    SyncDone =>
        /\ \A i \in 1..Len(log) : log[i].op # "set_tag"
        /\ tag = tier0
        /\ yielded = <<>>

(***************************************************************************)
(* C19: when the reset step of sync fails the command stops before         *)
(* tagging: it issues no listing and no set-tag call and does not write    *)
(* the exclusion object.                                                   *)
(***************************************************************************)
ResetFailed ==
    \E i \in 1..Len(log) : log[i].op = "sync" /\ log[i].out = "error"

\* C19: after a failed reset the reset is the only store call of the sync,
\* the command is over, and tags and exclusion object are untouched
C19_FailedResetStops ==
    ResetFailed =>
        /\ log = << Ev("sync", 0, "error") >>
        /\ pc = "done" /\ pass = "none" /\ rec = NoRec
        /\ exclFile = excl0 /\ tag = tier0 /\ tier = tier0
        /\ printed = << Line("failed to set storage class", 0, {}) >>

\* C19: a sync with exclusion enabled whose reset failed
C19_Witness ==
    /\ cmd = "sync" /\ args.excluded_indices_enabled
    /\ ResetFailed /\ pc = "done"
    /\ \E b \in Blobs : tier[b] = "Archive"

(***************************************************************************)
(* C20: the download-update-upload of the exclusion object is not atomic.  *)
(* Two invocations that both download before either uploads can leave the  *)
(* object without the change of one of them; two reconciles that run one   *)
(* after the other lose no update.                                         *)
(***************************************************************************)
\* the download the reconcile of the first invocation acted on
OwnDownload ==
    CHOOSE i \in 0..Len(log) :
        /\ i > 0 => (log[i].op = "download" /\ log[i].out # "throttled")
        /\ \A j \in (i + 1)..Len(log) :
              ~(log[j].op = "download" /\ log[j].out # "throttled")
OwnUpload ==
    CHOOSE i \in 0..Len(log) :
        /\ i > 0 => (log[i].op = "upload" /\ log[i].out = "ok")
        /\ \A j \in (i + 1)..Len(log) : ~(log[j].op = "upload" /\ log[j].out = "ok")
At(op) ==
    CHOOSE i \in 0..Len(log) :
        /\ i > 0 => log[i].op = op
        /\ \A j \in (i + 1)..Len(log) : log[j].op # op

\* both invocations have finished a reconcile, on different index ids
BothReconciled ==
    /\ pc = "done" /\ rec.fn # "none" /\ OwnUpload > 0
    /\ peer.pc = "done"
    /\ rec.ids \cap peer.ids = {}

\* one reconcile uploaded before the other downloaded
OneAfterTheOther ==
    \/ OwnUpload < At("peer_download")
    \/ At("peer_upload") < OwnDownload

\* both downloaded before either uploaded
BothDownloadFirst ==
    /\ OwnDownload < At("peer_upload")
    /\ At("peer_download") < OwnUpload

\* the persisted list shows the change of reconcile r
Kept(r) ==
    /\ exclFile.present
    /\ IF r.fn = "add" THEN r.ids \subseteq Range(exclFile.list)
                        ELSE r.ids \cap Range(exclFile.list) = {}

\* both downloads returned the object as it was stored
BothDownloadsRead ==
    /\ log[OwnDownload].out = "ok"
    /\ log[At("peer_download")].out = "ok"

\* C20: two reconciles that ran one after the other both show in the
\* persisted exclusion list
C20_SequentialLosesNoUpdate ==
    (BothReconciled /\ OneAfterTheOther) => (Kept(rec) /\ Kept(peer))

\* C20: a lost update: both invocations read the stored object before either
\* wrote it, and the persisted list lacks the change of one of them
C20_LostUpdate ==
    /\ BothReconciled /\ BothDownloadFirst /\ BothDownloadsRead
    /\ ~(Kept(rec) /\ Kept(peer))

\* C20, what the code does: one after the other no update is lost when
\* both downloads returned a stored object; a reconcile that found no
\* object, or whose download failed, rewrites the list as empty
C20_Observed ==
    (BothReconciled /\ OneAfterTheOther /\ BothDownloadsRead)
        => (Kept(rec) /\ Kept(peer))

\* C20: two reconciles one after the other, the first of which found no
\* exclusion object
C20_SequentialLoss ==
    /\ BothReconciled /\ OneAfterTheOther
    /\ excl0 = Absent
    /\ ~(Kept(rec) /\ Kept(peer))

(***************************************************************************)
(* C21: loading the exclusion set at the start of a tag batch never aborts *)
(* the command: when the object is absent or its read fails the set is     *)
(* empty, the failure is logged, and the batch attempts every listed blob  *)
(* whose name matches, so that nothing is skipped for exclusion.           *)
(***************************************************************************)
\* the position in the log of the load of the running set_tag: the first
\* download of the pass that was not throttled (0 when there is none yet)
LoadOfPass ==
    CHOOSE i \in {0} \cup BatchLog :
        /\ i > 0 => (log[i].op = "download" /\ log[i].out # "throttled")
        /\ \A j \in BatchLog :
              (j < i \/ i = 0) => ~(log[j].op = "download" /\ log[j].out # "throttled")

LoadFailed ==
    pass = "tag" /\ pc # "load" /\ LoadOfPass > 0 /\ log[LoadOfPass].out = "error"

\* C21: after a failed load the command is not aborted by it, the set is
\* empty, the failure was logged, and every matching blob the loop has
\* taken got its set-tag call
C21_LoadNeverAborts ==
    LoadFailed =>
        /\ excluded_indices = {}
        /\ PrintedLines("failed to read") # {}
        /\ pc = "aborted" => LoadOfPass < Len(log)
        /\ \A b \in Yielded :
              (IndexIdOf(b) # "" /\ b # cur) => Issued("set_tag", b, "ok")
                                                \/ Issued("set_tag", b, "error")

\* C21: a finished tag to Archive with exclusion enabled whose load failed
\* although the stored list names an index: a blob of that index was tagged
C21_Witness ==
    /\ LoadFailed /\ pc = "done" /\ TagToArchive /\ enabled
    /\ \E b \in Yielded :
          /\ IndexIdOf(b) \in Range(excl0.list)
          /\ Issued("set_tag", b, "ok")

(***************************************************************************)
(* C22: the tier filter of the lister.  Without force every yielded name   *)
(* is of a blob in the required tier, and a blob of another tier is        *)
(* skipped without an error; with force every blob under the prefix is     *)
(* yielded whatever its tier.                                              *)
(***************************************************************************)
Listing == pass \in DOMAIN OpOfPass
ListingOver == Listing /\ page = <<>> /\ ~found_next_marker
UnderPrefix == Range(SelectBlobs(vendor, args.included_prefix, 1))
\* the blob was in the tier the pass asks for when the pass started; a pass
\* changes a blob only after the lister has yielded it
InRequiredTier(b) == Lower(batch0.tier[b]) = Lower(src_tier)

\* C22: what the lister hands out is filtered by tier unless forced, a
\* forced listing that ran to its end has yielded every blob under the
\* prefix, and only a failed call aborts the command
C22_TierFilter ==
    Listing =>
        /\ ~force => \A b \in Yielded \cup Range(page) : InRequiredTier(b)
        /\ (force /\ ListingOver) => Yielded = UnderPrefix
        /\ pc = "aborted" =>
              /\ log[Len(log)].op \in {"list", "upload"}
              /\ log[Len(log)].out \in {"error", "rejected"}

\* C22: a listing without force that ran to its end, left out a blob of
\* another tier and yielded a blob that comes after it
C22_Witness ==
    /\ ListingOver /\ ~force /\ pc # "aborted"
    /\ \E b \in UnderPrefix, c \in Yielded :
          b < c /\ ~InRequiredTier(b) /\ b \notin Yielded

\* C22: a forced listing that ran to its end over blobs of both tiers
C22_WitnessForce ==
    /\ ListingOver /\ force
    /\ \E b, c \in Yielded : batch0.tier[b] # batch0.tier[c]

(***************************************************************************)
(* C23: in a tag batch a listed blob whose name does not match the index   *)
(* path pattern is never tagged, is not counted, and gives no id to the    *)
(* touched set; every listed blob that matches gives its index id to the   *)
(* touched set, also when it is skipped for exclusion.                     *)
(***************************************************************************)
Unmatched == {b \in Blobs : IndexIdOf(b) = ""}
TouchedByListing == {IndexIdOf(b) : b \in Yielded \ Unmatched}
SkippedForExclusion ==
    {b \in Yielded \ Unmatched :
        enabled /\ should_skip_index(IndexIdOf(b), dst_tier, excluded_indices)}

\* C23: the touched set is the set of index ids of the matching blobs
\* listed so far, the count is the number of matching blobs whose set-tag
\* call ended, and no set-tag call is made on a blob that does not match
C23_UnmatchedIgnored ==
    pass = "tag" =>
        /\ indices_diff = TouchedByListing
        /\ \A b \in Unmatched :
              /\ \A i \in 1..Len(log) : ~(log[i].op = "set_tag" /\ log[i].blob = b)
              /\ tag[b] = tier0[b]
              /\ b # cur
        /\ processed = Cardinality(SettledBlobs("set_tag") \ Unmatched)
        /\ (pc \in {"download", "upload"} /\ rec.ret = "done") =>
              rec.ids = TouchedByListing

\* C23: a reconcile of a tag batch that listed a blob outside the index
\* directories and skipped a matching blob for exclusion: the skipped blob's
\* index is in the touched set
C23_Witness ==
    /\ pass = "tag" /\ pc = "upload" /\ rec.ret = "done"
    /\ Yielded \cap Unmatched # {}
    /\ \E b \in SkippedForExclusion :
          /\ IndexIdOf(b) \in rec.ids
          /\ ~Attempted("set_tag", b)

(***************************************************************************)
(* C24: a reconcile never drops unrelated entries: every id that was in    *)
(* the persisted exclusion list before the reconcile and is not among the  *)
(* touched ids is still in it afterwards, whatever happened to the         *)
(* reconcile's own download.                                               *)
(***************************************************************************)
Unrelated == Range(RecOld.list) \ rec.ids

\* C24: right after the upload of a reconcile the unrelated ids are still
\* persisted
C24_KeepsUnrelated ==
    JustUploaded => Unrelated \subseteq Range(exclFile.list)

\* C24, what the code does: the unrelated ids are kept when the download
\* left a file; when it left none (a failure that was ignored) the object is
\* rewritten as the empty list
C24_Observed ==
    JustUploaded =>
        IF rec.downloaded.present
        THEN Unrelated \subseteq Range(exclFile.list)
        ELSE exclFile = File(<<>>)

\* C24: a reconcile whose download failed while the stored list held an
\* unrelated id
C24_DroppedUnrelated ==
    /\ JustUploaded /\ RecOld.present /\ ~rec.downloaded.present
    /\ Unrelated # {} /\ exclFile = File(<<>>)

(***************************************************************************)
(* C25: starting from an absent or duplicate-free exclusion list, after    *)
(* any sequence of add and remove reconciles the persisted list holds no   *)
(* id twice, and right after a remove reconcile none of the removed ids    *)
(* occurs in it.                                                           *)
(***************************************************************************)
NoDuplicates(l) == \A i, j \in 1..Len(l) : l[i] = l[j] => i = j
PeerJustUploaded == Len(log) > 0 /\ log[Len(log)] = Ev("peer_upload", 0, "ok")

\* C25: the persisted list never holds an id twice, and the upload of a
\* remove reconcile leaves none of its ids in the list
C25_NoDuplicates ==
    NoDuplicates(excl0.list) =>
        /\ NoDuplicates(exclFile.list)
        /\ (JustUploaded /\ rec.fn = "remove") =>
              rec.ids \cap Range(exclFile.list) = {}
        /\ (PeerJustUploaded /\ peer.fn = "remove") =>
              peer.ids \cap Range(exclFile.list) = {}

\* C25: an add reconcile and then a remove reconcile on a stored list, the
\* remove having taken an id out of a list that keeps another one
C25_Witness ==
    /\ excl0.present
    /\ pc = "done" /\ rec.fn = "add" /\ OwnUpload > 0
    /\ PeerJustUploaded /\ peer.fn = "remove"
    /\ OwnUpload < At("peer_download")
    /\ BothDownloadsRead
    /\ peer.ids \cap Range(peer.downloaded.list) # {}
    /\ exclFile.list # <<>>

(***************************************************************************)
(* C26: with the exclusion list disabled (--no-excluded-indices) tag and   *)
(* sync never upload the exclusion object: the persisted exclusion set is  *)
(* after the command what it was before, whatever the destination tier     *)
(* and whether or not a tagging call failed.                               *)
(***************************************************************************)
ExclusionDisabled == cmd \in {"tag", "sync"} /\ ~args.excluded_indices_enabled

\* C26: a tag or sync with the exclusion list disabled never starts a
\* reconcile, issues no upload, and leaves the exclusion object as it was
C26_DisabledNeverWrites ==
    ExclusionDisabled =>
        /\ exclFile = excl0
        /\ rec = NoRec /\ pc \notin {"download", "upload"}
        /\ \A i \in 1..Len(log) : log[i].op # "upload"

\* C26: a finished tag with the exclusion list disabled that tagged a blob
\* of an index without any failed call, over a stored exclusion list
C26_Witness ==
    /\ ExclusionDisabled /\ cmd = "tag" /\ pc = "done"
    /\ excl0.present /\ errors = {} /\ indices_diff # {}
    /\ \E b \in Yielded : Issued("set_tag", b, "ok")

\* C26: a finished sync with the exclusion list disabled whose reset copied
\* files of an index
C26_WitnessSync ==
    /\ ExclusionDisabled /\ cmd = "sync" /\ pc = "done" /\ ~ResetFailed
    /\ SyncOutputIds(args.included_prefix) # {}

(***************************************************************************)
(* C27: in the Azure lister a throttled listing call yields no names and   *)
(* is issued again with the same cursor; the cursor advances only after a  *)
(* successful page, so throttling neither duplicates nor omits names and   *)
(* does not end the listing early.                                         *)
(***************************************************************************)
LastList(l, out) ==
    Len(l) > 0 /\ l[Len(l)].op = "list" /\ l[Len(l)].out = out

\* this step is a listing call of the Azure lister that was throttled
ThrottledListing ==
    vendor = VENDOR_AZURE /\ log' # log /\ LastList(log', "throttled")

\* C27: a throttled listing call leaves the cursor, the names yielded and
\* the loop of the lister as they were, so that the same call is the next
\* thing the lister does; the cursor changes only in a step that is a
\* successful listing call; no name is yielded twice, and a listing that
\* runs to its end has yielded every matching name
C27_ThrottledListingRetried ==
    [][ /\ ThrottledListing =>
              /\ marker' = marker /\ yielded' = yielded /\ page' = page
              /\ found_next_marker' /\ found_next_marker
              /\ pc' = "iter" /\ pc = "iter"
        /\ (vendor = VENDOR_AZURE /\ marker' # marker /\ marker' # <<>>) =>
              (log' # log /\ LastList(log', "ok"))
        /\ vendor = VENDOR_AZURE =>
              /\ NoDuplicates(yielded')
              /\ pc' = "post" => yielded' = Expected'
      ]_vars

\* C27: an Azure listing whose first call was throttled and that ran to its
\* end with every matching name yielded once
C27_Witness ==
    /\ vendor = VENDOR_AZURE /\ pc = "post" /\ Len(yielded) >= 2
    /\ yielded = Expected
    /\ \E i \in BatchLog :
          /\ log[i].op = "list" /\ log[i].out = "throttled"
          /\ \E j \in BatchLog : j > i /\ log[j].op = "list" /\ log[j].out = "ok"

====
